---- MODULE Spec2Model ----
(***************************************************************************)
(* Model of klipper_tmc_autotune: AutotuneTMC (autotune_tmc.py), the       *)
(* per-stepper object that resolves a tuning goal and applies driver       *)
(* register fields, over its host lifecycle                                *)
(*   __init__  ->  handle_connect  ->  handle_ready  ->  AUTOTUNE_TMC ...  *)
(*                                                                         *)
(* Units: holding torque in 0.01 N.m, frequencies in Hz.                   *)
(* An optional value (Python None or a value) is a set with at most one    *)
(* element: {} is None, {v} is v.                                          *)
(* A tuning goal is the string value of the TuningGoal str-Enum member.    *)
(***************************************************************************)
EXTENDS Integers, Sequences, FiniteSets, TLC

VARIABLES
    phase,             \* lifecycle position: "constructed", "connected", "ready", "failed"
    name,              \* self.name, the stepper section name
    motor_defined,     \* whether printer.lookup_object(self.motor_name) succeeds
    motor_T,           \* motor.T, holding torque (0.01 N.m)
    cfg_goal,          \* the goal parsed from the config at construction
    tuning_goal,       \* self.tuning_goal
    auto_silent,       \* self.auto_silent
    extra_hysteresis,  \* self.extra_hysteresis
    pwm_freq_target,   \* self.pwm_freq_target (Hz)
    fclk,              \* self.fclk, optional (Hz)
    regs,              \* driver fields by name: the last value handed to _set_driver_field
    emitted,           \* the field/value pairs of the most recent tune_driver run, in order
    runs,              \* number of tune_driver invocations so far
    tuned_goal,        \* optional: self.tuning_goal at the most recent tune_driver invocation
    tuned_fclk,        \* self.fclk at the most recent tune_driver invocation
    last_op,           \* the handler that ran last: "init", "connect", "ready", "cmd"
    last_tgoal,        \* optional: TUNING_GOAL parameter of the last command
    first_run,         \* optional: the inputs and the emitted pairs of the first tune_driver run
    ready_query,       \* optional: the outcome of the frequency query handle_ready made
    sink_err,          \* optional: the field whose application the sink reported as failed
                       \* in the most recent tune_driver run
    m_state,           \* MotorConstants: "idle", "config", "constructed", "config_error",
                       \* "ZeroDivisionError"
    m_R,               \* resistance (0.1 ohm)
    m_L,               \* inductance (0.1 mH)
    m_T,               \* holding_torque (0.01 N.m)
    m_S,               \* steps_per_revolution
    m_I,               \* max_current (0.01 A)
    m_call             \* the most recent call of a MotorConstants method: arguments and result

vars == <<phase, name, motor_defined, motor_T, cfg_goal, tuning_goal, auto_silent,
          extra_hysteresis, pwm_freq_target, fclk, regs, emitted, runs,
          tuned_goal, tuned_fclk, last_op, last_tgoal, first_run, ready_query,
          sink_err, m_state, m_R, m_L, m_T, m_S, m_I, m_call>>

\* the variables of the MotorConstants model
mvars == <<m_state, m_R, m_L, m_T, m_S, m_I, m_call>>

\* the variables of the AutotuneTMC model
avars == <<phase, name, motor_defined, motor_T, cfg_goal, tuning_goal, auto_silent,
           extra_hysteresis, pwm_freq_target, fclk, regs, emitted, runs,
           tuned_goal, tuned_fclk, last_op, last_tgoal, first_run, ready_query,
           sink_err>>

----------------------------------------------------------------------------
(* Bounds of the model *)

\* tune_driver invocations explored per behaviour
MaxRuns == 3

\* stepper names tried: one of AUTO_PERFORMANCE_MOTORS and one outside it
NameSamples == {"stepper_x", "stepper_z"}

\* holding torques tried (0.01 N.m): below, at and above the 0.3 threshold
TorqueSamples == {20, 30, 50}

\* configured extra_hysteresis values tried, within the config range
ExtraCfgSamples == {0, 8}

\* configured pwm_freq_target values tried (Hz), within the config range
TargetSamples == {10000, 14999, 18000, 20001, 55000, 100000}

\* TUNING_GOAL strings a command may carry
GoalParamSamples == {"auto", "silent", "performance", "autoswitch", "SILENT", "bogus"}

\* EXTRA_HYSTERESIS integers a command may carry
ExtraParamSamples == {-1, 5, 9}

\* frequency a successful get_tmc_frequency() returns
FclkSamples == {16000000}

\* motor definitions tried: resistance (0.1 ohm), inductance (0.1 mH), holding
\* torque (0.01 N.m), steps per revolution, max current (0.01 A)
MotorRSamples == {10, 20}
MotorLSamples == {0, 10, 30}
MotorTSamples == {0, 20, 50}
MotorSSamples == {0, 200}
MotorISamples == {-100, 0, 100, 150}

\* arguments tried in calls of the MotorConstants methods: clock (kHz), steps,
\* supply voltage (V), current (0.01 A), blank-time index, off-time
CallFclkSamples == {20, 2000, 12500}
CallStepsSamples == {0, 200}
CallVoltsSamples == {0, 12, 24}
CallCurrentSamples == {-50, 0, 100}
CallTblSamples == {0, 1, 3}
CallToffSamples == {0, 3}

\* fields whose application the sink may report as failed: the first and a
\* middle field of a run
SinkErrorSamples == {"en_pwm_mode", "pwm_freq"}

----------------------------------------------------------------------------
(* Module-level constants of autotune_tmc.py *)

TUNING_GOAL == "auto"
EXTRA_HYSTERESIS == 0

AUTO_PERFORMANCE_MOTORS ==
    {"stepper_x", "stepper_y", "stepper_x1", "stepper_y1",
     "stepper_a", "stepper_b", "stepper_c"}

AUTO == "auto"
AUTOSWITCH == "autoswitch"
SILENT == "silent"
PERFORMANCE == "performance"

\* the values of the TuningGoal enum
TuningGoal == {AUTO, AUTOSWITCH, SILENT, PERFORMANCE}

\* config.getint('extra_hysteresis', minval=0, maxval=8)
ExtraMin == 0
ExtraMax == 8

\* config.getfloat('pwm_freq_target', minval=10e3, maxval=100e3)
PwmTargetMin == 10000
PwmTargetMax == 100000

\* motor.T > 0.3
TorqueThreshold == 30

\* handle_ready: self.fclk = 12.5e6
FclkFallback == 12500000

\* adjust_pwm_freq: max(15e3, min(target, 20e3))
SilentPwmLow == 15000
SilentPwmHigh == 20000

\* no MotorConstants method called yet
NoCall ==
    [op |-> "none", fclk |-> 0, steps |-> 0, volts |-> 0, current |-> 0,
     extra |-> 0, tbl |-> 0, toff |-> 0, err |-> "", res1 |-> 0, res2 |-> 0, raw |-> 0]

None == {}
Some(v) == {v}
Get(opt) == CHOOSE v \in opt : TRUE

Max(a, b) == IF a >= b THEN a ELSE b
Min(a, b) == IF a <= b THEN a ELSE b

----------------------------------------------------------------------------
(* str.lower() on the strings the model uses *)
Lower(s) ==
    CASE s = "SILENT" -> "silent"
      [] s = "AUTO" -> "auto"
      [] s = "PERFORMANCE" -> "performance"
      [] s = "AUTOSWITCH" -> "autoswitch"
      [] OTHER -> s

(* gcmd.get(name, default): the parameter when given, the default otherwise *)
GcmdGet(param, default) == IF param = None THEN default ELSE Get(param)

----------------------------------------------------------------------------
(* _set_driver_field(field, value): one field/value pair handed to the sink *)
SetDriverField(field, value) == <<field, value>>

(* set_stealthchop_mode(goal) *)
set_stealthchop_mode(goal) ==
    IF goal = SILENT
    THEN << SetDriverField("en_pwm_mode", TRUE),
            SetDriverField("en_spreadcycle", FALSE) >>
    ELSE << SetDriverField("en_pwm_mode", FALSE),
            SetDriverField("en_spreadcycle", TRUE) >>

(* variant of pwm_freq: the upper clamp min(target, 20e3) left out *)
pwm_freq_nomin(goal, target) ==
    IF goal = SILENT
    THEN Max(SilentPwmLow, target)
    ELSE target

(* the pwm_freq adjust_pwm_freq computes *)
pwm_freq(goal, target) ==
    IF goal = SILENT
    THEN Max(SilentPwmLow, Min(target, SilentPwmHigh))
    ELSE target

(* adjust_pwm_freq() *)
adjust_pwm_freq(goal, target) ==
    << SetDriverField("pwm_freq", pwm_freq(goal, target)) >>

(* smooth_acceleration() *)
smooth_acceleration ==
    << SetDriverField("semax", 3),
       SetDriverField("semin", 1),
       SetDriverField("seup", 4),
       SetDriverField("sedn", 2) >>

(* variant of tune_driver: the pairs collect in a list that is never cleared
   between runs *)
tune_driver_accum(goal, target) ==
    IF goal \in {SILENT, PERFORMANCE}
    THEN emitted \o set_stealthchop_mode(goal) \o adjust_pwm_freq(goal, target)
                 \o smooth_acceleration
    ELSE emitted

(* variant of tune_driver: the thresholds are written before pwm_freq *)
tune_driver_reordered(goal, target) ==
    IF goal \in {SILENT, PERFORMANCE}
    THEN set_stealthchop_mode(goal) \o smooth_acceleration \o adjust_pwm_freq(goal, target)
    ELSE << >>

(* variant of tune_driver: the run ends at the field the sink reports as failed *)
tune_driver_abort(goal, target) ==
    LET full == IF goal \in {SILENT, PERFORMANCE}
                THEN set_stealthchop_mode(goal) \o adjust_pwm_freq(goal, target)
                     \o smooth_acceleration
                ELSE << >>
        bad == {i \in DOMAIN full : full[i][1] \in sink_err'}
    IN  IF bad = {} THEN full
        ELSE SubSeq(full, 1, CHOOSE i \in bad : \A j \in bad : i <= j)

(* tune_driver(): the field/value pairs one run hands to the sink, in order *)
tune_driver(goal, target) ==
    IF goal = SILENT
    THEN set_stealthchop_mode(goal) \o adjust_pwm_freq(goal, target) \o smooth_acceleration
    ELSE IF goal = PERFORMANCE
    THEN set_stealthchop_mode(goal) \o adjust_pwm_freq(goal, target) \o smooth_acceleration
    ELSE << >>

(* the driver fields after a sequence of writes: the last value written wins *)
RECURSIVE ApplyWrites(_, _)
ApplyWrites(r, ws) ==
    IF ws = << >> THEN r
    ELSE ApplyWrites((Head(ws)[1] :> Head(ws)[2]) @@ r, Tail(ws))

----------------------------------------------------------------------------
(* variant of AutoSilent: motor.T >= 0.3 *)
AutoSilent_ge(n, T) == n \notin AUTO_PERFORMANCE_MOTORS /\ T >= TorqueThreshold

(* handle_connect, line 158: the cached silent/performance preference *)
AutoSilent(n, T) == n \notin AUTO_PERFORMANCE_MOTORS /\ T > TorqueThreshold

(* lines 159 and 184: SILENT if self.auto_silent else PERFORMANCE *)
GoalFor(as) == IF as THEN SILENT ELSE PERFORMANCE

(* variant of ParseOrKeep: an unparseable string falls back to the default goal *)
ParseOrKeep_default(cur, tgoal) == IF tgoal \in TuningGoal THEN tgoal ELSE TUNING_GOAL

(* cmd_AUTOTUNE_TMC, lines 179-182: TuningGoal(tgoal), keeping the current
   goal on ValueError *)
ParseOrKeep(cur, tgoal) == IF tgoal \in TuningGoal THEN tgoal ELSE cur

(* cmd_AUTOTUNE_TMC, lines 177-184: the goal after the command's goal step *)
CmdGoal(cur, param, as) ==
    LET tgoal == Lower(GcmdGet(param, TUNING_GOAL))
        g == ParseOrKeep(cur, tgoal)
    IN  IF g = AUTO THEN GoalFor(as) ELSE g

(* cmd_AUTOTUNE_TMC, line 187: the range test on EXTRA_HYSTERESIS *)
ExtraAccepted(e) == e >= ExtraMin \/ e <= ExtraMax

(* cmd_AUTOTUNE_TMC, lines 185-188 *)
CmdExtra(cur, param) ==
    IF param # None
    THEN IF ExtraAccepted(Get(param)) THEN Get(param) ELSE cur
    ELSE cur

(* variant of ReadyFclk: the 12.5e6 fallback left out *)
ReadyFclk_nofallback(cur, q) ==
    IF q.kind = "value" THEN Some(q.value)
    ELSE IF q.kind = "none" THEN None
    ELSE cur

(* handle_ready, lines 166-171: self.fclk after the frequency query.
   q.kind: "absent" (AttributeError), "value" (q.value returned), "none"
   (None returned) *)
ReadyFclk(cur, q) ==
    LET got == IF q.kind = "value" THEN Some(q.value)
               ELSE IF q.kind = "none" THEN None
               ELSE cur
    IN  IF got = None THEN Some(FclkFallback) ELSE got

QueryOutcomes ==
    {[kind |-> "absent", value |-> 0], [kind |-> "none", value |-> 0],
     [kind |-> "raises", value |-> 0]}
    \cup {[kind |-> "value", value |-> f] : f \in FclkSamples}

----------------------------------------------------------------------------
(* __init__: the state after a successful construction (a config error, an
   invalid tuning_goal included, leaves no object behind) *)
Init ==
    /\ phase = "constructed"
    /\ name \in NameSamples
    /\ motor_defined \in BOOLEAN
    /\ motor_T \in TorqueSamples
    /\ cfg_goal \in TuningGoal
    /\ tuning_goal = cfg_goal
    /\ auto_silent = FALSE
    /\ extra_hysteresis \in {EXTRA_HYSTERESIS}
                            \cup {e \in ExtraCfgSamples : e >= ExtraMin /\ e <= ExtraMax}
    /\ pwm_freq_target \in {t \in TargetSamples : t >= PwmTargetMin /\ t <= PwmTargetMax}
    /\ fclk = None
    /\ regs = [f \in {} |-> 0]
    /\ emitted = << >>
    /\ runs = 0
    /\ tuned_goal = None
    /\ tuned_fclk = None
    /\ last_op = "init"
    /\ last_tgoal = None
    /\ first_run = None
    /\ ready_query = None
    /\ sink_err = None
    /\ m_state = "idle"
    /\ m_R = 0 /\ m_L = 0 /\ m_T = 0 /\ m_S = 0 /\ m_I = 0
    /\ m_call = NoCall

(* DriverFieldSink.apply(field, value) -> success | error: the outcomes of the
   sink over one run, at most one field reported as failed.  A run that hands
   nothing to the sink has no outcome to report. *)
SinkOutcomes(goal) ==
    IF goal \in {SILENT, PERFORMANCE}
    THEN {None} \cup {Some(f) : f \in SinkErrorSamples}
    ELSE {None}

(* the effect of one tune_driver() call on the sink and the run record *)
RunTuneDriver(goal, f, eh) ==
    /\ sink_err' \in SinkOutcomes(goal)
    /\ emitted' = tune_driver(goal, pwm_freq_target)
    /\ regs' = ApplyWrites(regs, emitted')
    /\ runs' = runs + 1
    /\ tuned_goal' = Some(goal)
    /\ tuned_fclk' = f
    /\ first_run' = IF first_run = None
                    THEN Some([goal |-> goal, target |-> pwm_freq_target,
                               extra |-> eh, fclk |-> f,
                               emitted |-> emitted'])
                    ELSE first_run

(* handle_connect with the motor definition present *)
handle_connect ==
    /\ phase = "constructed"
    /\ motor_defined
    /\ IF tuning_goal = AUTO
       THEN /\ auto_silent' = AutoSilent(name, motor_T)
            /\ tuning_goal' = GoalFor(auto_silent')
       ELSE UNCHANGED <<auto_silent, tuning_goal>>
    /\ phase' = "connected"
    /\ last_op' = "connect"
    /\ UNCHANGED ready_query
    /\ UNCHANGED mvars
    /\ UNCHANGED <<name, motor_defined, motor_T, cfg_goal, extra_hysteresis,
                   pwm_freq_target, fclk, regs, emitted, runs, tuned_goal,
                   tuned_fclk, last_tgoal, first_run, sink_err>>

(* handle_connect raising config_error: the motor definition is missing *)
handle_connect_error ==
    /\ phase = "constructed"
    /\ ~motor_defined
    /\ phase' = "failed"
    /\ last_op' = "connect"
    /\ UNCHANGED ready_query
    /\ UNCHANGED mvars
    /\ UNCHANGED <<name, motor_defined, motor_T, cfg_goal, tuning_goal, auto_silent,
                   extra_hysteresis, pwm_freq_target, fclk, regs, emitted, runs,
                   tuned_goal, tuned_fclk, last_tgoal, first_run, sink_err>>

(* handle_ready, the frequency query absent, returning a value or None.
   self.tmc_init_registers is None from construction on and nothing assigns
   it, so the call at line 165 is never made. *)
handle_ready ==
    /\ phase = "connected"
    /\ \E q \in QueryOutcomes :
          /\ q.kind # "raises"
          /\ fclk' = ReadyFclk(fclk, q)
          /\ ready_query' = Some(q)
    /\ RunTuneDriver(tuning_goal, fclk', extra_hysteresis)
    /\ phase' = "ready"
    /\ last_op' = "ready"
    /\ UNCHANGED mvars
    /\ UNCHANGED <<name, motor_defined, motor_T, cfg_goal, tuning_goal, auto_silent,
                   extra_hysteresis, pwm_freq_target, last_tgoal>>

(* handle_ready, the frequency query raising something other than
   AttributeError: the exception leaves the handler before tune_driver *)
handle_ready_error ==
    /\ phase = "connected"
    /\ \E q \in QueryOutcomes :
          /\ q.kind = "raises"
          /\ ready_query' = Some(q)
    /\ phase' = "failed"
    /\ last_op' = "ready"
    /\ UNCHANGED mvars
    /\ UNCHANGED <<name, motor_defined, motor_T, cfg_goal, tuning_goal, auto_silent,
                   extra_hysteresis, pwm_freq_target, fclk, regs, emitted, runs,
                   tuned_goal, tuned_fclk, last_tgoal, first_run, sink_err>>

(* variant of cmd_AUTOTUNE_TMC: a command requesting AUTO recomputes the cached
   preference from the axis name and the motor torque *)
cmd_AUTOTUNE_TMC_recompute ==
    /\ phase = "ready"
    /\ runs < MaxRuns
    /\ \E tg \in {None} \cup {Some(s) : s \in GoalParamSamples},
          eh \in {None} \cup {Some(e) : e \in ExtraParamSamples} :
          /\ auto_silent' = IF Lower(GcmdGet(tg, TUNING_GOAL)) = AUTO
                            THEN AutoSilent(name, motor_T)
                            ELSE auto_silent
          /\ tuning_goal' = CmdGoal(tuning_goal, tg, auto_silent')
          /\ extra_hysteresis' = CmdExtra(extra_hysteresis, eh)
          /\ last_tgoal' = tg
    /\ RunTuneDriver(tuning_goal', fclk, extra_hysteresis')
    /\ last_op' = "cmd"
    /\ UNCHANGED mvars
    /\ UNCHANGED <<phase, name, motor_defined, motor_T, cfg_goal,
                   pwm_freq_target, fclk, ready_query>>

(* cmd_AUTOTUNE_TMC(gcmd) *)
cmd_AUTOTUNE_TMC ==
    /\ phase = "ready"
    /\ runs < MaxRuns
    /\ \E tg \in {None} \cup {Some(s) : s \in GoalParamSamples},
          eh \in {None} \cup {Some(e) : e \in ExtraParamSamples} :
          /\ tuning_goal' = CmdGoal(tuning_goal, tg, auto_silent)
          /\ extra_hysteresis' = CmdExtra(extra_hysteresis, eh)
          /\ last_tgoal' = tg
    /\ RunTuneDriver(tuning_goal', fclk, extra_hysteresis')
    /\ last_op' = "cmd"
    /\ UNCHANGED mvars
    /\ UNCHANGED <<phase, name, motor_defined, motor_T, cfg_goal, auto_silent,
                   pwm_freq_target, fclk, ready_query>>

Next ==
    \/ handle_connect
    \/ handle_connect_error
    \/ handle_ready
    \/ handle_ready_error
    \/ cmd_AUTOTUNE_TMC

Spec == Init /\ [][Next]_vars

TypeOK ==
    /\ phase \in {"constructed", "connected", "ready", "failed"}
    /\ tuning_goal \in TuningGoal
    /\ auto_silent \in BOOLEAN
    /\ runs \in 0..MaxRuns
    /\ Cardinality(fclk) <= 1

----------------------------------------------------------------------------
(* MotorConstants (motor_constants.py).  The float arithmetic is carried out
   on exact fractions of integers in the units given with the variables;
   math.pi is the fraction PiNum / PiDen. *)

\* math.pi
PiNum == 355
PiDen == 113

\* volts=24.0, the default of pwmgrad's third parameter
PwmgradDefaultVolts == 24

RECURSIVE Gcd(_, _)
Gcd(a, b) == IF b = 0 THEN a ELSE Gcd(b, a % b)

\* math.ceil(n / d) for d > 0
CeilDiv(n, d) == -((-n) \div d)

Pow(b, e) == IF e = 0 THEN 1 ELSE IF e = 1 THEN b ELSE IF e = 2 THEN b * b ELSE b * b * b

(* __init__, lines 7-12: config.getfloat / getint with minval=0 raise a config
   error below 0; self.cbemf = self.T / (2.0 * self.I) divides by zero for
   max_current = 0 *)
MotorConstruct(R, L, T, S, I) ==
    IF R < 0 \/ L < 0 \/ T < 0 \/ S < 0 \/ I < 0 THEN "config_error"
    ELSE IF 2 * I = 0 THEN "ZeroDivisionError"
    ELSE "constructed"

(* pwmgrad(fclk, steps, volts), lines 15-18, with cbemf = T / (2 I):
   ceil(cbemf * 2 * pi * fclk * 1.46 / (volts * 256 * steps))
     = ceil(T * pi * fk * 365 / (I * 64 * volts * steps)), fk the clock in kHz *)
pwmgrad(T, I, S, fk, steps, volts) ==
    LET st == IF steps = 0 THEN S ELSE steps
        den0 == 64 * volts * st
    IN  IF den0 = 0 THEN [err |-> "ZeroDivisionError", v |-> 0]
        ELSE LET g == Gcd(fk, den0)
                 h == Gcd(T, I)
                 num == (T \div h) * PiNum * 365 * (fk \div g)
                 den == (I \div h) * PiDen * (den0 \div g)
             IN  [err |-> "", v |-> CeilDiv(num, den)]

(* variant of EffCurrent: the given current is used when it is >= 0 *)
EffCurrent_ge(Imax, current) == IF current >= 0 THEN current ELSE (8 * Imax) \div 10

(* lines 22 and 33: I = current if current > 0.0 else self.I * 0.8  (0.01 A) *)
EffCurrent(Imax, current) == IF current > 0 THEN current ELSE (8 * Imax) \div 10

(* pwmofs(volts, current), lines 21-23: ceil(374 * R * I / volts) *)
pwmofs(R, Imax, volts, current) ==
    LET ie == EffCurrent(Imax, current)
    IN  IF volts = 0 THEN [err |-> "ZeroDivisionError", v |-> 0]
        ELSE [err |-> "", v |-> CeilDiv(374 * R * ie, 1000 * volts)]

(* maxpwmrps(fclk, steps, volts, current), lines 26-29:
   (255 - pwmofs(volts, current)) / (pi * pwmgrad(fclk, steps)).
   The quotient is num / (pi * grad); pwmgrad is called without volts and so
   with its default. *)
maxpwmrps(R, T, Imax, S, fk, steps, volts, current) ==
    LET o == pwmofs(R, Imax, volts, current)
        g == pwmgrad(T, Imax, S, fk, steps, PwmgradDefaultVolts)
    IN  IF o.err # "" THEN [err |-> o.err, num |-> 0, grad |-> 0]
        ELSE IF g.err # "" THEN [err |-> g.err, num |-> 0, grad |-> 0]
        ELSE IF g.v = 0 THEN [err |-> "ZeroDivisionError", num |-> 0, grad |-> 0]
        ELSE [err |-> "", num |-> 255 - o.v, grad |-> g.v]

(* hysteresis, lines 35-40: the term
   ceil(max(0.5 + ((dcoilblank + dcoilsd) * 2 * 248 * 32 / I) / 32 - 8, -2)),
   where (dcoilblank + dcoilsd) * 496 / I
     = 992 * (8000 * volts * 3^tbl + R * (12 + 32 toff) * 2^tbl * I)
           / (2^tbl * I * fk * L) *)
HystTerm(R, L, Imax, fk, volts, current, tbl, toff) ==
    LET ie == EffCurrent(Imax, current)
        M == 8000 * volts * Pow(3, tbl) + R * (12 + 32 * toff) * Pow(2, tbl) * ie
        Dn == Pow(2, tbl) * ie * fk * L
    IN  IF Dn = 0 THEN [err |-> "ZeroDivisionError", v |-> 0]
        ELSE LET g1 == Gcd(992, Dn)
                 d1 == Dn \div g1
                 g2 == Gcd(M, d1)
                 A == (992 \div g1) * (M \div g2)
                 B == d1 \div g2
                 c == CeilDiv(2 * A - 15 * B, 2 * B)
             IN  [err |-> "", v |-> Max(c, -2)]

(* variant of HystPair: hstrt without its lower clamp max(..., 1) *)
HystPair_nolow(raw) ==
    LET htotal == Min(raw, 14)
        hstrt == Min(htotal, 8)
        hend == Min(htotal - hstrt, 12)
    IN  <<hstrt - 1, hend + 3>>

(* hysteresis, lines 41-45: the clamp chain on hysteresis = extra + term *)
HystPair(raw) ==
    LET htotal == Min(raw, 14)
        hstrt == Max(Min(htotal, 8), 1)
        hend == Min(htotal - hstrt, 12)
    IN  <<hstrt - 1, hend + 3>>

(* the configuration of a [motor_constants ...] section, before __init__ *)
MotorInit ==
    /\ m_state = "config"
    /\ m_R \in MotorRSamples
    /\ m_L \in MotorLSamples
    /\ m_T \in MotorTSamples
    /\ m_S \in MotorSSamples
    /\ m_I \in MotorISamples
    /\ m_call = NoCall
    /\ phase = "idle"
    /\ name = "stepper_x"
    /\ motor_defined = FALSE
    /\ motor_T = 0
    /\ cfg_goal = TUNING_GOAL
    /\ tuning_goal = TUNING_GOAL
    /\ auto_silent = FALSE
    /\ extra_hysteresis = EXTRA_HYSTERESIS
    /\ pwm_freq_target = PwmTargetMin
    /\ fclk = None
    /\ regs = [f \in {} |-> 0]
    /\ emitted = << >>
    /\ runs = 0
    /\ tuned_goal = None
    /\ tuned_fclk = None
    /\ last_op = "init"
    /\ last_tgoal = None
    /\ first_run = None
    /\ ready_query = None
    /\ sink_err = None

(* MotorConstants.__init__ *)
motor_init ==
    /\ m_state = "config"
    /\ m_state' = MotorConstruct(m_R, m_L, m_T, m_S, m_I)
    /\ UNCHANGED <<m_R, m_L, m_T, m_S, m_I, m_call>>
    /\ UNCHANGED avars

(* The methods assign no attribute, so a call's result does not depend on the
   calls before it: each behaviour makes one call on the constructed object. *)

(* a call of pwmgrad *)
call_pwmgrad ==
    /\ m_state = "constructed"
    /\ m_call = NoCall
    /\ \E fk \in CallFclkSamples, st \in CallStepsSamples, v \in CallVoltsSamples :
          LET r == pwmgrad(m_T, m_I, m_S, fk, st, v)
          IN  m_call' = [NoCall EXCEPT !.op = "pwmgrad", !.fclk = fk, !.steps = st,
                                       !.volts = v, !.err = r.err, !.res1 = r.v]
    /\ UNCHANGED <<m_state, m_R, m_L, m_T, m_S, m_I>>
    /\ UNCHANGED avars

(* a call of pwmofs *)
call_pwmofs ==
    /\ m_state = "constructed"
    /\ m_call = NoCall
    /\ \E v \in CallVoltsSamples, c \in CallCurrentSamples :
          LET r == pwmofs(m_R, m_I, v, c)
          IN  m_call' = [NoCall EXCEPT !.op = "pwmofs", !.volts = v, !.current = c,
                                       !.err = r.err, !.res1 = r.v]
    /\ UNCHANGED <<m_state, m_R, m_L, m_T, m_S, m_I>>
    /\ UNCHANGED avars

(* a call of maxpwmrps: res1 / (pi * res2) is the value returned *)
call_maxpwmrps ==
    /\ m_state = "constructed"
    /\ m_call = NoCall
    /\ \E fk \in CallFclkSamples, st \in CallStepsSamples, v \in CallVoltsSamples,
          c \in CallCurrentSamples :
          LET r == maxpwmrps(m_R, m_T, m_I, m_S, fk, st, v, c)
          IN  m_call' = [NoCall EXCEPT !.op = "maxpwmrps", !.fclk = fk, !.steps = st,
                                       !.volts = v, !.current = c, !.err = r.err,
                                       !.res1 = r.num, !.res2 = r.grad]
    /\ UNCHANGED <<m_state, m_R, m_L, m_T, m_S, m_I>>
    /\ UNCHANGED avars

(* a call of hysteresis: <<res1, res2>> is the pair returned, raw the value of
   the local hysteresis *)
call_hysteresis ==
    /\ m_state = "constructed"
    /\ m_call = NoCall
    /\ \E e \in ExtraMin..ExtraMax, fk \in CallFclkSamples, v \in CallVoltsSamples,
          c \in CallCurrentSamples, tb \in CallTblSamples, to \in CallToffSamples :
          LET t == HystTerm(m_R, m_L, m_I, fk, v, c, tb, to)
              pr == HystPair(e + t.v)
          IN  m_call' = IF t.err # ""
                        THEN [NoCall EXCEPT !.op = "hysteresis", !.extra = e, !.fclk = fk,
                                            !.volts = v, !.current = c, !.tbl = tb,
                                            !.toff = to, !.err = t.err]
                        ELSE [NoCall EXCEPT !.op = "hysteresis", !.extra = e, !.fclk = fk,
                                            !.volts = v, !.current = c, !.tbl = tb,
                                            !.toff = to, !.raw = e + t.v,
                                            !.res1 = pr[1], !.res2 = pr[2]]
    /\ UNCHANGED <<m_state, m_R, m_L, m_T, m_S, m_I>>
    /\ UNCHANGED avars

MotorNext ==
    \/ motor_init
    \/ call_pwmgrad
    \/ call_pwmofs
    \/ call_maxpwmrps
    \/ call_hysteresis

SpecMotor == MotorInit /\ [][MotorNext]_vars

----------------------------------------------------------------------------
(* Properties *)

\* the resolution table of the goal AUTO, written out: SILENT exactly when the
\* axis is outside the performance-preferred set and the torque exceeds 0.3 N.m
TableGoal ==
    IF /\ name \notin {"stepper_x", "stepper_y", "stepper_x1", "stepper_y1",
                       "stepper_a", "stepper_b", "stepper_c"}
       /\ motor_T > 30
    THEN "silent" ELSE "performance"

\* the pwm_freq pairs of the most recent run
PwmFreqWrites == {i \in DOMAIN emitted : emitted[i][1] = "pwm_freq"}

\* C1: whenever tune_driver is invoked (from handle_ready or from
\* cmd_AUTOTUNE_TMC) the current tuning goal is SILENT or PERFORMANCE.
C1_TunedGoalTerminal ==
    \A g \in tuned_goal : g \in {"silent", "performance"}

\* C2: handle_connect resolves a configured AUTO to SILENT exactly when the axis
\* is not in AUTO_PERFORMANCE_MOTORS and the torque is strictly above 0.3, and to
\* PERFORMANCE otherwise; a configured SILENT or PERFORMANCE passes unchanged.
C2_ConnectResolution ==
    (last_op = "connect" /\ phase = "connected") =>
        /\ cfg_goal = "auto" => tuning_goal = TableGoal
        /\ cfg_goal \in {"silent", "performance"} => tuning_goal = cfg_goal

\* C2 witness: the boundary case, an axis outside the set with torque exactly 0.3
C2_Witness ==
    /\ last_op = "connect" /\ phase = "connected"
    /\ cfg_goal = "auto" /\ name = "stepper_z" /\ motor_T = 30
    /\ tuning_goal = "performance"

\* C3: a command requesting AUTO is resolved by the same table as at connect,
\* whatever goal was configured at construction.
C3_CmdAutoSameTable ==
    (last_op = "cmd" /\ last_tgoal # None /\ Lower(Get(last_tgoal)) = "auto") =>
        tuning_goal = TableGoal

\* C4: a command without a TUNING_GOAL parameter leaves the tuning goal as it
\* was before the command.
C4_NoGoalParamKeepsGoal ==
    [][(last_op' = "cmd" /\ last_tgoal' = None) => tuning_goal' = tuning_goal]_vars

\* C5: extra_hysteresis stays within [0,8] after any sequence of commands
\* (an out-of-range EXTRA_HYSTERESIS is ignored).
C5_ExtraInRange ==
    extra_hysteresis >= 0 /\ extra_hysteresis <= 8

\* C6: a command whose TUNING_GOAL string is none of the four goal names
\* changes neither the tuning goal nor the cached auto_silent preference.
C6_InvalidGoalRejected ==
    [][(/\ last_op' = "cmd"
        /\ last_tgoal' # None
        /\ Lower(Get(last_tgoal')) \notin {"auto", "autoswitch", "silent", "performance"})
       => (tuning_goal' = tuning_goal /\ auto_silent' = auto_silent)]_vars

\* C6 witness: a command carrying an unknown goal string has run
C6_Witness ==
    last_op = "cmd" /\ last_tgoal = {"bogus"} /\ runs >= 2

\* C7: a tuning run that follows another with the same inputs (goal,
\* pwm_freq_target, extra_hysteresis, fclk) emits the same sequence of pairs; a
\* run leaves those inputs as they were when it was invoked; and any run whose
\* inputs equal those of the first run emits what the first run emitted.
C7_TuneIdempotent ==
    /\ [](runs > 0 =>
            /\ tuned_goal = {tuning_goal}
            /\ tuned_fclk = fclk
            /\ \A fr \in first_run :
                  (/\ fr.goal = tuning_goal
                   /\ fr.target = pwm_freq_target
                   /\ fr.extra = extra_hysteresis
                   /\ fr.fclk = fclk) => emitted = fr.emitted)
    /\ [][(/\ runs >= 1
           /\ runs' = runs + 1
           /\ tuned_goal' = tuned_goal
           /\ pwm_freq_target' = pwm_freq_target
           /\ extra_hysteresis' = extra_hysteresis
           /\ tuned_fclk' = tuned_fclk) => emitted' = emitted]_vars

\* C7 witness: a third run with the inputs of the first, emitting field writes
C7_Witness ==
    /\ runs >= 3
    /\ emitted # << >>
    /\ \E fr \in first_run :
          /\ fr.goal = tuning_goal
          /\ fr.target = pwm_freq_target
          /\ fr.extra = extra_hysteresis
          /\ fr.fclk = fclk

\* C8: after any tuning run exactly one of the two chopper modes is enabled and
\* it matches the current goal: stealthChop (en_pwm_mode) for SILENT,
\* spreadCycle (en_spreadcycle) otherwise.
C8_ChopperMatchesGoal ==
    runs > 0 =>
        /\ {"en_pwm_mode", "en_spreadcycle"} \subseteq DOMAIN regs
        /\ regs["en_pwm_mode"] = (tuning_goal = "silent")
        /\ regs["en_spreadcycle"] = (tuning_goal # "silent")

\* C9: for every target in [10 kHz, 100 kHz] a SILENT run applies
\* pwm_freq = max(15 kHz, min(target, 20 kHz)), which lies in [15 kHz, 20 kHz]
\* (55 kHz gives 20 kHz, 10 kHz gives 15 kHz, 18 kHz stays); a PERFORMANCE run
\* applies the target unmodified.
C9_PwmFreqClamp ==
    (runs > 0 /\ tuned_goal \subseteq {"silent", "performance"}) =>
        /\ pwm_freq_target >= 10000 /\ pwm_freq_target <= 100000
        /\ PwmFreqWrites # {}
        /\ \A i \in PwmFreqWrites :
              LET v == emitted[i][2]
                  t == pwm_freq_target
              IN  IF tuned_goal = {"silent"}
                  THEN /\ v = (IF t < 15000 THEN 15000 ELSE IF t > 20000 THEN 20000 ELSE t)
                       /\ v >= 15000 /\ v <= 20000
                       /\ t = 55000 => v = 20000
                       /\ t = 10000 => v = 15000
                       /\ t = 18000 => v = 18000
                       /\ regs["pwm_freq"] = v
                  ELSE v = t /\ regs["pwm_freq"] = t

\* C9 witness: a SILENT run with the 55 kHz target applied 20 kHz
C9_Witness ==
    /\ runs > 0 /\ tuned_goal = {"silent"}
    /\ pwm_freq_target = 55000
    /\ "pwm_freq" \in DOMAIN regs /\ regs["pwm_freq"] = 20000

C11_ReadyAlwaysTunes ==
    last_op = "ready" =>
        /\ phase = "ready"
        /\ runs = 1
        /\ \A q \in ready_query :
              fclk = (IF q.kind = "value" THEN {q.value} ELSE {12500000})

\* the field names of the most recent run, in the order they were handed over
EmittedFields == [i \in DOMAIN emitted |-> emitted[i][1]]

\* C16: every tuning run for a terminal goal writes the chopper mode
\* (en_pwm_mode, en_spreadcycle), then pwm_freq, then the four thresholds, the
\* thresholds being semax = 3, semin = 1, seup = 4, sedn = 2 whatever the goal.
C16_WriteOrder ==
    (runs > 0 /\ tuned_goal # None /\ tuned_goal \subseteq {"silent", "performance"}) =>
        /\ Len(emitted) = 7
        /\ SubSeq(EmittedFields, 1, 3) = <<"en_pwm_mode", "en_spreadcycle", "pwm_freq">>
        /\ {EmittedFields[i] : i \in 4..7} = {"semax", "semin", "seup", "sedn"}
        /\ \A i \in 4..7 :
              emitted[i][2] = (CASE emitted[i][1] = "semax" -> 3
                                 [] emitted[i][1] = "semin" -> 1
                                 [] emitted[i][1] = "seup" -> 4
                                 [] emitted[i][1] = "sedn" -> 2)

\* C16 witness: a PERFORMANCE run has written its fields
C16_Witness ==
    runs > 0 /\ tuned_goal = {"performance"} /\ Len(emitted) = 7

\* C17: auto_silent is written only by handle_connect: no command and no tuning
\* run changes it.
C17_AutoSilentCached ==
    [][auto_silent' # auto_silent => last_op' = "connect"]_vars

\* C17 witness: commands, one requesting AUTO, ran after handle_connect cached
\* a silent preference
C17_Witness ==
    /\ last_op = "cmd" /\ runs >= 3
    /\ last_tgoal = {"auto"}
    /\ auto_silent = TRUE

C12_ZeroCurrentRejected ==
    (m_state \notin {"idle", "config"} /\ m_I <= 0) => m_state = "config_error"

\* C13: for every extra in [0,8] and every raw term (>= -2) hysteresis returns
\* (hstart, hend) with hstart in [0,7] and hend <= 11, the pair being
\* (clamp(htotal, 1, 8) - 1, min(htotal - clamp(htotal, 1, 8), 12) + 3) for
\* htotal = min(raw, 14).
C13_HysteresisBounds ==
    (m_call.op = "hysteresis" /\ m_call.err = "") =>
        LET raw == m_call.raw
            htotal == IF raw < 14 THEN raw ELSE 14
            hstart == IF htotal < 1 THEN 1 ELSE IF htotal > 8 THEN 8 ELSE htotal
            hend == IF htotal - hstart < 12 THEN htotal - hstart ELSE 12
        IN  /\ m_call.extra >= 0 /\ m_call.extra <= 8
            /\ raw - m_call.extra >= -2
            /\ m_call.res1 >= 0 /\ m_call.res1 <= 7
            /\ m_call.res2 <= 11
            /\ m_call.res1 = hstart - 1
            /\ m_call.res2 = hend + 3

\* C13 witness: the lowest raw value, where hstart is held at its lower clamp
C13_Witness ==
    /\ m_call.op = "hysteresis" /\ m_call.err = ""
    /\ m_call.raw = -2
    /\ m_call.res1 = 0 /\ m_call.res2 = 0

\* C14: maxpwmrps(fclk, steps, volts, current) is
\* (255 - pwmofs(volts, current)) / (pi * pwmgrad(fclk, steps, volts)): the
\* gradient in the denominator is the one pwmgrad computes for the caller's
\* volts.
C14_MaxPwmRpsUsesVolts ==
    (m_call.op = "maxpwmrps" /\ m_call.err = "") =>
        /\ m_call.res1 = 255 - pwmofs(m_R, m_I, m_call.volts, m_call.current).v
        /\ m_call.res2 = pwmgrad(m_T, m_I, m_S, m_call.fclk, m_call.steps, m_call.volts).v

\* C15: pwmofs uses the given current when it is > 0 and 0.8 * Imax otherwise,
\* returns ceil(374 * R * I / volts) for that current, and for positive volts
\* the result is a non-negative integer, non-decreasing in R and in the
\* effective current.
C15_PwmOffset ==
    (m_call.op = "pwmofs" /\ m_call.volts > 0) =>
        LET eff(c) == IF c > 0 THEN c ELSE (8 * m_I) \div 10
            ie == eff(m_call.current)
            q == (374 * m_R * ie) \div (1000 * m_call.volts)
            exact == q * (1000 * m_call.volts) = 374 * m_R * ie
        IN  /\ m_call.err = ""
            /\ m_call.res1 = (IF exact THEN q ELSE q + 1)
            /\ m_call.res1 >= 0
            /\ \A r2 \in MotorRSamples :
                  r2 >= m_R => pwmofs(r2, m_I, m_call.volts, m_call.current).v >= m_call.res1
            /\ \A c2 \in CallCurrentSamples :
                  eff(c2) >= ie => pwmofs(m_R, m_I, m_call.volts, c2).v >= m_call.res1

\* C15 witness: a call with current = 0 fell back to 0.8 * Imax
C15_Witness ==
    /\ m_call.op = "pwmofs" /\ m_call.err = ""
    /\ m_call.current = 0 /\ m_call.volts = 24
    /\ m_R = 20 /\ m_I = 150 /\ m_call.res1 = 38

====
